---------------------------- MODULE Spec2Model ----------------------------
(***************************************************************************)
(* Integer vector kernel of ultraviolet (src/src/int.rs): the 2-, 3- and   *)
(* 4-component vectors over u32 and i32 generated by the macros vec2i!,    *)
(* vec3i! and vec4i!, their arithmetic, dot and cross products,            *)
(* magnitudes, reflection, clamp, map / apply, homogeneous and plain       *)
(* conversions, raw views and indexing, and the scalar MulAdd.             *)
(*                                                                         *)
(* Representation.  A vector is a record with the fields of the struct     *)
(* (x, y[, z[, w]]).  A component is a mathematical integer inside the     *)
(* range of its element kind.  The element width is Bits: the ring         *)
(* Z/2^Bits has the laws of Z/2^32, and a small Bits keeps the exact       *)
(* (double-width) products within 32-bit integers.                         *)
(*                                                                         *)
(* Panics.  A Rust panic is the in-band value PANIC: every scalar          *)
(* operation that receives PANIC yields PANIC, so a panic raised in a      *)
(* sub-expression unwinds through the whole expression.  A vector value    *)
(* one of whose components is PANIC stands for "the expression panicked    *)
(* before the vector was built" (Unwound).                                 *)
(*                                                                         *)
(* Build profile.  The operators +, -, * and unary - of the source are the *)
(* plain Rust operators: with overflow checks compiled in (the default of  *)
(* the dev and test profiles) an overflow panics, without them (the        *)
(* default of the release profile) it wraps.  overflow_checks is chosen    *)
(* once, in Init, and both profiles are explored.                          *)
(***************************************************************************)
EXTENDS Integers, FiniteSets, Sequences, TLC

VARIABLES
    overflow_checks,  \* build profile: TRUE = overflow checks compiled in
    kind,             \* element kind $t of the family: "u32" or "i32"
    v,                \* the input vector the driver started from (never changes)
    self,             \* the receiver: current value of the vector under operation
    rhs,              \* vector operand of the last operation
    s,                \* scalar operand of the last operation
    index,            \* index operand of the last operation
    hist,             \* names of the operations applied so far, in order
    sres,             \* scalar result of the last scalar-valued operation
    panicked,         \* TRUE once an operation has panicked (the thread is gone)
    fuel,             \* operations the driver may still apply
    prev,             \* the receiver before the last operation
    min,              \* lower corner of the box of the last clamp
    max,              \* upper corner of the box of the last clamp
    multiplier,       \* a of the last scalar mul_add
    addend,           \* b of the last scalar mul_add
    func,             \* name of the function given to the last map / apply
    view              \* the slice handed out by the last raw view

vars == <<overflow_checks, kind, v, self, rhs, s, index, hist, sres,
          panicked, fuel, prev, min, max, multiplier, addend, func, view>>

-----------------------------------------------------------------------------
(* Bounds of the model *)

\* width, in bits, of the element kinds (stands for the 32 of u32 / i32)
Bits == 8

\* binary places kept behind the point by an f64 holding a square root (stands
\* for the 37 that the 53-bit significand leaves behind a 16-bit integer part)
FracBits == 6

\* largest index tried by the indexing operations (indices are 0..MaxIndex)
MaxIndex == 5

\* longest chain of operations applied to one input
MaxSteps == 2

-----------------------------------------------------------------------------
(* Element kinds and the scalar operators of Rust *)

Modulus == 2 ^ Bits

Kinds == {"u32", "i32"}

\* $t::MIN
MinOf(t) == IF t = "i32" THEN 0 - 2 ^ (Bits - 1) ELSE 0

\* $t::MAX
MaxOf(t) == IF t = "i32" THEN 2 ^ (Bits - 1) - 1 ELSE Modulus - 1

InRange(t, n) == MinOf(t) <= n /\ n <= MaxOf(t)

\* the value of type t congruent to n modulo 2^Bits (two's complement for i32)
Wrap(t, n) ==
    LET m == n % Modulus
    IN  IF t = "i32" /\ m >= 2 ^ (Bits - 1) THEN m - Modulus ELSE m

\* the in-band panic: outside the range of both kinds and of every product
PANIC == 0 - (Modulus * Modulus) - 1

\* result of an arithmetic operator whose exact result is n: the value when it
\* is representable; otherwise a panic with overflow checks, the wrapped value
\* without
Overflowing(t, n) ==
    IF InRange(t, n) THEN n
    ELSE IF overflow_checks THEN PANIC ELSE Wrap(t, n)

\* a + b on type t
add(t, a, b) ==
    IF a = PANIC \/ b = PANIC THEN PANIC ELSE Overflowing(t, a + b)

\* a - b on type t
sub(t, a, b) ==
    IF a = PANIC \/ b = PANIC THEN PANIC ELSE Overflowing(t, a - b)

\* a * b on type t
mul(t, a, b) ==
    IF a = PANIC \/ b = PANIC THEN PANIC ELSE Overflowing(t, a * b)

\* -a on type t (the source negates i32 values only)
neg(t, a) ==
    IF a = PANIC THEN PANIC ELSE Overflowing(t, 0 - a)

Abs(n) == IF n < 0 THEN 0 - n ELSE n

\* mutant: the quotient rounded down (floor), not towards zero
TruncDiv_M(a, b) ==
    LET q == Abs(a) \div Abs(b)
    IN  IF (a < 0) = (b < 0) THEN q
        ELSE IF Abs(a) % Abs(b) = 0 THEN 0 - q ELSE 0 - q - 1

\* quotient rounded towards zero
TruncDiv(a, b) ==
    LET q == Abs(a) \div Abs(b)
    IN  IF (a < 0) = (b < 0) THEN q ELSE 0 - q

\* mutant: a guarded division, 0 for a zero divisor
div_M(t, a, b) ==
    IF a = PANIC \/ b = PANIC THEN PANIC
    ELSE IF b = 0 THEN 0
    ELSE IF ~InRange(t, TruncDiv(a, b)) THEN PANIC
    ELSE TruncDiv(a, b)

\* a / b on type t: division by zero panics in every build profile, and so
\* does the one overflowing quotient MIN / -1 of a signed type
div(t, a, b) ==
    IF a = PANIC \/ b = PANIC THEN PANIC
    ELSE IF b = 0 THEN PANIC
    ELSE IF ~InRange(t, TruncDiv(a, b)) THEN PANIC
    ELSE TruncDiv(a, b)

\* a as t: a cast between the two 32-bit kinds keeps the bit pattern
as(t, a) ==
    IF a = PANIC THEN PANIC ELSE Wrap(t, a)

\* an f64 is held as the integer  value * 2^FracBits;  NaN is apart from all
NaN == PANIC - 1

\* n as f64: exact, every u32 and every i32 is an f64
as_f64(n) ==
    IF n = PANIC THEN PANIC ELSE n * 2 ^ FracBits

\* f64::sqrt: NaN for a negative number, else the f64 nearest to the root
sqrt(x) ==
    IF x = PANIC THEN PANIC
    ELSE IF x < 0 THEN NaN
    ELSE LET y == x * 2 ^ FracBits
             r == CHOOSE q \in 0..(2 ^ ((Bits \div 2) + FracBits + 1)) :
                      q * q <= y /\ y < (q + 1) * (q + 1)
         IN  IF y - r * r > r THEN r + 1 ELSE r

\* mutant: the cast rounds to the nearest integer
f64_as_M(t, x) ==
    IF x = PANIC THEN PANIC
    ELSE IF x = NaN THEN 0
    ELSE LET n == (x + 2 ^ (FracBits - 1)) \div 2 ^ FracBits
         IN  IF n < MinOf(t) THEN MinOf(t)
             ELSE IF n > MaxOf(t) THEN MaxOf(t) ELSE n

\* x as $t of an f64: 0 for NaN, else the integer part (rounded towards zero),
\* saturated to the range of $t
f64_as(t, x) ==
    IF x = PANIC THEN PANIC
    ELSE IF x = NaN THEN 0
    ELSE LET n == TruncDiv(x, 2 ^ FracBits)
         IN  IF n < MinOf(t) THEN MinOf(t)
             ELSE IF n > MaxOf(t) THEN MaxOf(t) ELSE n

\* Ord::max(a, b) and Ord::min(a, b) of u32 and of i32
Ord_max(a_, b_) == IF b_ >= a_ THEN b_ ELSE a_

Ord_min(a_, b_) == IF a_ <= b_ THEN a_ ELSE b_

\* MulAdd::mul_add for u32 and for i32: (self * a) + b
mul_add(t, self_, a, b) == add(t, mul(t, self_, a), b)

-----------------------------------------------------------------------------
(* Vectors as values: fields, panics inside vector expressions, stores *)

\* number of components of a vector value
Dim(r) == Cardinality(DOMAIN r)

\* position of a field in the #[repr(C)] struct: x, y, z, w in this order
FieldRank(f) ==
    CASE f = "x" -> 1 [] f = "y" -> 2 [] f = "z" -> 3 [] f = "w" -> 4

\* the expression building the vector r panicked before r existed
Unwound(r) == \E f \in DOMAIN r : r[f] = PANIC

\* the statements  self.x op= ..; self.y op= ..; ..  run in field order: the
\* values new were computed from the receiver old; a statement that panics
\* stores nothing and the statements after it do not run.  The result holds
\* PANIC at the field whose statement panicked.
Stored(old, new) ==
    [f \in DOMAIN old |->
        IF \E g \in DOMAIN old : FieldRank(g) < FieldRank(f) /\ new[g] = PANIC
        THEN old[f] ELSE new[f]]

\* the receiver's memory after the stores of Stored: the panicking statement
\* left its field as it was
Kept(old, new) ==
    [f \in DOMAIN old |-> IF new[f] = PANIC THEN old[f] ELSE new[f]]

\* index_mut hands out no reference: it panicked
NoPlace == "none"

-----------------------------------------------------------------------------
(* vec2i!: the 2-component family (Vec2u, Vec2i) *)

Vec2_new(x, y) == [x |-> x, y |-> y]

Vec2_broadcast(val) == Vec2_new(val, val)

Vec2_zero == Vec2_broadcast(0)

Vec2_one == Vec2_broadcast(1)

Vec2_add(self_, rhs_) ==
    Vec2_new(add(kind, self_.x, rhs_.x),
             add(kind, self_.y, rhs_.y))

Vec2_add_assign(self_, rhs_) ==
    Stored(self_, [x |-> add(kind, self_.x, rhs_.x),
                   y |-> add(kind, self_.y, rhs_.y)])

Vec2_sub(self_, rhs_) ==
    Vec2_new(sub(kind, self_.x, rhs_.x),
             sub(kind, self_.y, rhs_.y))

Vec2_sub_assign(self_, rhs_) ==
    Stored(self_, [x |-> sub(kind, self_.x, rhs_.x),
                   y |-> sub(kind, self_.y, rhs_.y)])

Vec2_mul(self_, rhs_) ==
    Vec2_new(mul(kind, self_.x, rhs_.x),
             mul(kind, self_.y, rhs_.y))

Vec2_scalar_mul(self_, rhs_) ==
    Vec2_new(mul(kind, self_, rhs_.x),
             mul(kind, self_, rhs_.y))

Vec2_mul_scalar(self_, rhs_) ==
    Vec2_new(mul(kind, self_.x, rhs_),
             mul(kind, self_.y, rhs_))

Vec2_mul_assign(self_, rhs_) ==
    Stored(self_, [x |-> mul(kind, self_.x, rhs_.x),
                   y |-> mul(kind, self_.y, rhs_.y)])

Vec2_mul_assign_scalar(self_, rhs_) ==
    Stored(self_, [x |-> mul(kind, self_.x, rhs_),
                   y |-> mul(kind, self_.y, rhs_)])

Vec2_div(self_, rhs_) ==
    Vec2_new(div(kind, self_.x, rhs_.x),
             div(kind, self_.y, rhs_.y))

Vec2_div_scalar(self_, rhs_) ==
    Vec2_new(div(kind, self_.x, rhs_),
             div(kind, self_.y, rhs_))

Vec2_div_assign(self_, rhs_) ==
    Stored(self_, [x |-> div(kind, self_.x, rhs_.x),
                   y |-> div(kind, self_.y, rhs_.y)])

Vec2_div_assign_scalar(self_, rhs_) ==
    Stored(self_, [x |-> div(kind, self_.x, rhs_),
                   y |-> div(kind, self_.y, rhs_)])

Vec2_index(self_, index_) ==
    CASE index_ = 0 -> self_.x [] index_ = 1 -> self_.y [] OTHER -> PANIC

Vec2_index_mut(self_, index_) ==
    CASE index_ = 0 -> "x" [] index_ = 1 -> "y" [] OTHER -> NoPlace

-----------------------------------------------------------------------------
(* vec3i!: the 3-component family (Vec3u, Vec3i) *)

Vec3_new(x, y, z) == [x |-> x, y |-> y, z |-> z]

Vec3_broadcast(val) == Vec3_new(val, val, val)

\* mutant: zero() broadcasts 1, as one() does
Vec3_zero_M == Vec3_broadcast(1)

Vec3_zero == Vec3_broadcast(0)

Vec3_one == Vec3_broadcast(1)

Vec3_add(self_, rhs_) ==
    Vec3_new(add(kind, self_.x, rhs_.x),
             add(kind, self_.y, rhs_.y),
             add(kind, self_.z, rhs_.z))

Vec3_add_assign(self_, rhs_) ==
    Stored(self_, [x |-> add(kind, self_.x, rhs_.x),
                   y |-> add(kind, self_.y, rhs_.y),
                   z |-> add(kind, self_.z, rhs_.z)])

Vec3_sub(self_, rhs_) ==
    Vec3_new(sub(kind, self_.x, rhs_.x),
             sub(kind, self_.y, rhs_.y),
             sub(kind, self_.z, rhs_.z))

\* mutant: the last statement adds
Vec3_sub_assign_M(self_, rhs_) ==
    Stored(self_, [x |-> sub(kind, self_.x, rhs_.x),
                   y |-> sub(kind, self_.y, rhs_.y),
                   z |-> add(kind, self_.z, rhs_.z)])

Vec3_sub_assign(self_, rhs_) ==
    Stored(self_, [x |-> sub(kind, self_.x, rhs_.x),
                   y |-> sub(kind, self_.y, rhs_.y),
                   z |-> sub(kind, self_.z, rhs_.z)])

Vec3_mul(self_, rhs_) ==
    Vec3_new(mul(kind, self_.x, rhs_.x),
             mul(kind, self_.y, rhs_.y),
             mul(kind, self_.z, rhs_.z))

\* mutant: the z component scaled from y
Vec3_scalar_mul_M(self_, rhs_) ==
    Vec3_new(mul(kind, self_, rhs_.x),
             mul(kind, self_, rhs_.y),
             mul(kind, self_, rhs_.y))

Vec3_scalar_mul(self_, rhs_) ==
    Vec3_new(mul(kind, self_, rhs_.x),
             mul(kind, self_, rhs_.y),
             mul(kind, self_, rhs_.z))

Vec3_mul_scalar(self_, rhs_) ==
    Vec3_new(mul(kind, self_.x, rhs_),
             mul(kind, self_.y, rhs_),
             mul(kind, self_.z, rhs_))

Vec3_mul_assign(self_, rhs_) ==
    Stored(self_, [x |-> mul(kind, self_.x, rhs_.x),
                   y |-> mul(kind, self_.y, rhs_.y),
                   z |-> mul(kind, self_.z, rhs_.z)])

Vec3_mul_assign_scalar(self_, rhs_) ==
    Stored(self_, [x |-> mul(kind, self_.x, rhs_),
                   y |-> mul(kind, self_.y, rhs_),
                   z |-> mul(kind, self_.z, rhs_)])

Vec3_div(self_, rhs_) ==
    Vec3_new(div(kind, self_.x, rhs_.x),
             div(kind, self_.y, rhs_.y),
             div(kind, self_.z, rhs_.z))

Vec3_div_scalar(self_, rhs_) ==
    Vec3_new(div(kind, self_.x, rhs_),
             div(kind, self_.y, rhs_),
             div(kind, self_.z, rhs_))

Vec3_div_assign(self_, rhs_) ==
    Stored(self_, [x |-> div(kind, self_.x, rhs_.x),
                   y |-> div(kind, self_.y, rhs_.y),
                   z |-> div(kind, self_.z, rhs_.z)])

Vec3_div_assign_scalar(self_, rhs_) ==
    Stored(self_, [x |-> div(kind, self_.x, rhs_),
                   y |-> div(kind, self_.y, rhs_),
                   z |-> div(kind, self_.z, rhs_)])

\* mutant: the last arm is the default, so every index past 1 reads z
Vec3_index_M(self_, index_) ==
    CASE index_ = 0 -> self_.x [] index_ = 1 -> self_.y [] OTHER -> self_.z

Vec3_index(self_, index_) ==
    CASE index_ = 0 -> self_.x [] index_ = 1 -> self_.y [] index_ = 2 -> self_.z [] OTHER -> PANIC

Vec3_index_mut(self_, index_) ==
    CASE index_ = 0 -> "x" [] index_ = 1 -> "y" [] index_ = 2 -> "z" [] OTHER -> NoPlace

-----------------------------------------------------------------------------
(* vec4i!: the 4-component family (Vec4u, Vec4i) *)

Vec4_new(x, y, z, w) == [x |-> x, y |-> y, z |-> z, w |-> w]

Vec4_broadcast(val) == Vec4_new(val, val, val, val)

Vec4_zero == Vec4_broadcast(0)

Vec4_one == Vec4_broadcast(1)

Vec4_add(self_, rhs_) ==
    Vec4_new(add(kind, self_.x, rhs_.x),
             add(kind, self_.y, rhs_.y),
             add(kind, self_.z, rhs_.z),
             add(kind, self_.w, rhs_.w))

Vec4_add_assign(self_, rhs_) ==
    Stored(self_, [x |-> add(kind, self_.x, rhs_.x),
                   y |-> add(kind, self_.y, rhs_.y),
                   z |-> add(kind, self_.z, rhs_.z),
                   w |-> add(kind, self_.w, rhs_.w)])

Vec4_sub(self_, rhs_) ==
    Vec4_new(sub(kind, self_.x, rhs_.x),
             sub(kind, self_.y, rhs_.y),
             sub(kind, self_.z, rhs_.z),
             sub(kind, self_.w, rhs_.w))

Vec4_sub_assign(self_, rhs_) ==
    Stored(self_, [x |-> sub(kind, self_.x, rhs_.x),
                   y |-> sub(kind, self_.y, rhs_.y),
                   z |-> sub(kind, self_.z, rhs_.z),
                   w |-> sub(kind, self_.w, rhs_.w)])

Vec4_mul(self_, rhs_) ==
    Vec4_new(mul(kind, self_.x, rhs_.x),
             mul(kind, self_.y, rhs_.y),
             mul(kind, self_.z, rhs_.z),
             mul(kind, self_.w, rhs_.w))

Vec4_scalar_mul(self_, rhs_) ==
    Vec4_new(mul(kind, self_, rhs_.x),
             mul(kind, self_, rhs_.y),
             mul(kind, self_, rhs_.z),
             mul(kind, self_, rhs_.w))

Vec4_mul_scalar(self_, rhs_) ==
    Vec4_new(mul(kind, self_.x, rhs_),
             mul(kind, self_.y, rhs_),
             mul(kind, self_.z, rhs_),
             mul(kind, self_.w, rhs_))

Vec4_mul_assign(self_, rhs_) ==
    Stored(self_, [x |-> mul(kind, self_.x, rhs_.x),
                   y |-> mul(kind, self_.y, rhs_.y),
                   z |-> mul(kind, self_.z, rhs_.z),
                   w |-> mul(kind, self_.w, rhs_.w)])

Vec4_mul_assign_scalar(self_, rhs_) ==
    Stored(self_, [x |-> mul(kind, self_.x, rhs_),
                   y |-> mul(kind, self_.y, rhs_),
                   z |-> mul(kind, self_.z, rhs_),
                   w |-> mul(kind, self_.w, rhs_)])

Vec4_div(self_, rhs_) ==
    Vec4_new(div(kind, self_.x, rhs_.x),
             div(kind, self_.y, rhs_.y),
             div(kind, self_.z, rhs_.z),
             div(kind, self_.w, rhs_.w))

\* mutant: the w component divides self.z (a copied line left unedited)
Vec4_div_scalar_M(self_, rhs_) ==
    Vec4_new(div(kind, self_.x, rhs_),
             div(kind, self_.y, rhs_),
             div(kind, self_.z, rhs_),
             div(kind, self_.z, rhs_))

Vec4_div_scalar(self_, rhs_) ==
    Vec4_new(div(kind, self_.x, rhs_),
             div(kind, self_.y, rhs_),
             div(kind, self_.z, rhs_),
             div(kind, self_.w, rhs_))

Vec4_div_assign(self_, rhs_) ==
    Stored(self_, [x |-> div(kind, self_.x, rhs_.x),
                   y |-> div(kind, self_.y, rhs_.y),
                   z |-> div(kind, self_.z, rhs_.z),
                   w |-> div(kind, self_.w, rhs_.w)])

Vec4_div_assign_scalar(self_, rhs_) ==
    Stored(self_, [x |-> div(kind, self_.x, rhs_),
                   y |-> div(kind, self_.y, rhs_),
                   z |-> div(kind, self_.z, rhs_),
                   w |-> div(kind, self_.w, rhs_)])

Vec4_index(self_, index_) ==
    CASE index_ = 0 -> self_.x [] index_ = 1 -> self_.y [] index_ = 2 -> self_.z [] index_ = 3 -> self_.w [] OTHER -> PANIC

Vec4_index_mut(self_, index_) ==
    CASE index_ = 0 -> "x" [] index_ = 1 -> "y" [] index_ = 2 -> "z" [] index_ = 3 -> "w" [] OTHER -> NoPlace

-----------------------------------------------------------------------------
(* Conversions between the families *)

\* From<Vec3u> for Vec2u, From<Vec3i> for Vec2i
Vec2_from_Vec3(vec) == [x |-> vec.x, y |-> vec.y]

\* From<Vec4u> for Vec3u, From<Vec4i> for Vec3i
Vec3_from_Vec4(vec) == [x |-> vec.x, y |-> vec.y, z |-> vec.z]

\* From<Vec3u> for Vec4u, From<Vec3i> for Vec4i
Vec4_from_Vec3(vec) == [x |-> vec.x, y |-> vec.y, z |-> vec.z, w |-> 0]

\* Vec2::xyz
Vec2_xyz(self_) == Vec3_new(self_.x, self_.y, 0)

\* Vec2::xyzw
Vec2_xyzw(self_) == Vec4_new(self_.x, self_.y, 0, 0)

\* Vec3::xyzw
Vec3_xyzw(self_) == Vec4_new(self_.x, self_.y, self_.z, 0)

\* mutant: the homogeneous component of a point set to 0, as for a vector
Vec2_into_homogeneous_point_M(self_) == [x |-> self_.x, y |-> self_.y, z |-> 0]

Vec2_into_homogeneous_point(self_) == [x |-> self_.x, y |-> self_.y, z |-> 1]

Vec2_into_homogeneous_vector(self_) == [x |-> self_.x, y |-> self_.y, z |-> 0]

Vec2_from_homogeneous_point(v_) ==
    [x |-> div(kind, v_.x, v_.z), y |-> div(kind, v_.y, v_.z)]

Vec2_from_homogeneous_vector(v_) == Vec2_from_Vec3(v_)

Vec3_into_homogeneous_point(self_) ==
    [x |-> self_.x, y |-> self_.y, z |-> self_.z, w |-> 1]

Vec3_into_homogeneous_vector(self_) ==
    [x |-> self_.x, y |-> self_.y, z |-> self_.z, w |-> 0]

Vec3_from_homogeneous_point(v_) ==
    [x |-> div(kind, v_.x, v_.w), y |-> div(kind, v_.y, v_.w),
     z |-> div(kind, v_.z, v_.w)]

\* mutant: the narrowing divides by the last component, as for a point
Vec3_from_homogeneous_vector_M(v_) == Vec3_from_homogeneous_point(v_)

Vec3_from_homogeneous_vector(v_) == Vec3_from_Vec4(v_)

-----------------------------------------------------------------------------
(* Geometric products *)

Vec2_dot(self_, other) ==
    mul_add(kind, self_.x, other.x, mul(kind, self_.y, other.y))

\* mutant: the last product takes other.y for other.z
Vec3_dot_M(self_, other) ==
    mul_add(kind, self_.x, other.x,
            mul_add(kind, self_.y, other.y, mul(kind, self_.z, other.y)))

Vec3_dot(self_, other) ==
    mul_add(kind, self_.x, other.x,
            mul_add(kind, self_.y, other.y, mul(kind, self_.z, other.z)))

Vec4_dot(self_, other) ==
    mul_add(kind, self_.x, other.x,
            mul_add(kind, self_.y, other.y,
                    mul_add(kind, self_.z, other.z,
                            mul(kind, self_.w, other.w))))

Vec2_mag_sq(self_) ==
    mul_add(kind, self_.x, self_.x, mul(kind, self_.y, self_.y))

Vec2_mag(self_) == f64_as(kind, sqrt(as_f64(Vec2_mag_sq(self_))))

Vec3_mag_sq(self_) ==
    mul_add(kind, self_.x, self_.x,
            mul_add(kind, self_.y, self_.y, mul(kind, self_.z, self_.z)))

Vec3_mag(self_) == f64_as(kind, sqrt(as_f64(Vec3_mag_sq(self_))))

\* mutant: the square of w left out
Vec4_mag_sq_M(self_) ==
    mul_add(kind, self_.x, self_.x,
            mul_add(kind, self_.y, self_.y, mul(kind, self_.z, self_.z)))

Vec4_mag_sq(self_) ==
    mul_add(kind, self_.x, self_.x,
            mul_add(kind, self_.y, self_.y,
                    mul_add(kind, self_.z, self_.z,
                            mul(kind, self_.w, self_.w))))

Vec4_mag(self_) == f64_as(kind, sqrt(as_f64(Vec4_mag_sq(self_))))

\* reflected: *self - (2 * self.dot(normal) * normal)
Vec2_reflected(self_, normal) ==
    Vec2_sub(self_, Vec2_scalar_mul(mul(kind, 2, Vec2_dot(self_, normal)),
                                    normal))

\* reflect: *self -= 2 * self.dot(normal) * normal
Vec3_reflect(self_, normal) ==
    Vec3_sub_assign(self_,
                    Vec3_scalar_mul(mul(kind, 2, Vec3_dot(self_, normal)),
                                    normal))

\* reflected: let mut a = *self; a.reflect(normal); a
Vec3_reflected(self_, normal) == Vec3_reflect(self_, normal)

Vec4_reflect(self_, normal) ==
    Vec4_sub_assign(self_,
                    Vec4_scalar_mul(mul(kind, 2, Vec4_dot(self_, normal)),
                                    normal))

Vec4_reflected(self_, normal) == Vec4_reflect(self_, normal)

Vec3_unit_x == [x |-> 1, y |-> 0, z |-> 0]

Vec3_unit_y == [x |-> 0, y |-> 1, z |-> 0]

Vec3_unit_z == [x |-> 0, y |-> 0, z |-> 1]

\* -(c as i32) as $t: the cast to i32, the negation on i32, the cast back
NegCast(c) == as(kind, neg("i32", as("i32", c)))

Vec3_cross(self_, other) ==
    Vec3_new(mul_add(kind, self_.y, other.z, mul(kind, NegCast(self_.z), other.y)),
             mul_add(kind, self_.z, other.x, mul(kind, NegCast(self_.x), other.z)),
             mul_add(kind, self_.x, other.y, mul(kind, NegCast(self_.y), other.x)))

-----------------------------------------------------------------------------
(* Component-wise utilities *)

\* f(c) for the caller's function f: Fn($t) -> $t given to map / apply; the
\* functions are named: the identity, |c| c + 1, |c| c / 2 and |_| 0
Call(fn, c) ==
    CASE fn = "id" -> c
      [] fn = "succ" -> add(kind, c, 1)
      [] fn = "halve" -> div(kind, c, 2)
      [] fn = "zero" -> 0

\* map: $n::new(f(self.x), f(self.y))
Vec2_map(self_, fn) ==
    Vec2_new(Call(fn, self_.x), Call(fn, self_.y))

\* apply: self.x = f(self.x); self.y = f(self.y);
Vec2_apply(self_, fn) ==
    Stored(self_, [x |-> Call(fn, self_.x),
                   y |-> Call(fn, self_.y)])

Vec3_map(self_, fn) ==
    Vec3_new(Call(fn, self_.x), Call(fn, self_.y), Call(fn, self_.z))

Vec3_apply(self_, fn) ==
    Stored(self_, [x |-> Call(fn, self_.x),
                   y |-> Call(fn, self_.y),
                   z |-> Call(fn, self_.z)])

Vec4_map(self_, fn) ==
    Vec4_new(Call(fn, self_.x), Call(fn, self_.y), Call(fn, self_.z), Call(fn, self_.w))

Vec4_apply(self_, fn) ==
    Stored(self_, [x |-> Call(fn, self_.x),
                   y |-> Call(fn, self_.y),
                   z |-> Call(fn, self_.z),
                   w |-> Call(fn, self_.w)])

\* abs: Self::new(self.x, self.y); vec4i! defines no abs
Vec2_abs(self_) == Vec2_new(self_.x, self_.y)

Vec3_abs(self_) == Vec3_new(self_.x, self_.y, self_.z)

\* mutant: the upper bound applied first, the lower bound last
Vec2_clamp_M(self_, min_, max_) ==
    [x |-> Ord_max(Ord_min(self_.x, max_.x), min_.x),
     y |-> Ord_max(Ord_min(self_.y, max_.y), min_.y)]

\* clamp: self.c = self.c.max(min.c).min(max.c) for every field c
Vec2_clamp(self_, min_, max_) ==
    [x |-> Ord_min(Ord_max(self_.x, min_.x), max_.x),
     y |-> Ord_min(Ord_max(self_.y, min_.y), max_.y)]

\* clamped: clamp applied to the copy of the receiver, which is returned
Vec2_clamped(self_, min_, max_) == Vec2_clamp(self_, min_, max_)

Vec3_clamp(self_, min_, max_) ==
    [x |-> Ord_min(Ord_max(self_.x, min_.x), max_.x),
     y |-> Ord_min(Ord_max(self_.y, min_.y), max_.y),
     z |-> Ord_min(Ord_max(self_.z, min_.z), max_.z)]

Vec3_clamped(self_, min_, max_) == Vec3_clamp(self_, min_, max_)

Vec4_clamp(self_, min_, max_) ==
    [x |-> Ord_min(Ord_max(self_.x, min_.x), max_.x),
     y |-> Ord_min(Ord_max(self_.y, min_.y), max_.y),
     z |-> Ord_min(Ord_max(self_.z, min_.z), max_.z),
     w |-> Ord_min(Ord_max(self_.w, min_.w), max_.w)]

Vec4_clamped(self_, min_, max_) == Vec4_clamp(self_, min_, max_)

-----------------------------------------------------------------------------
(* Raw views of the memory of a vector *)

\* std::mem::size_of::<$t>(), in bytes, of u32 and of i32
size_of(t) == 4

\* the size_of($t) bytes of the element n in memory, in the byte order of the
\* target (two's complement for a negative n)
to_ne_bytes(t, n, big_endian) ==
    [j \in 1..size_of(t) |->
        LET k == IF big_endian THEN size_of(t) - j ELSE j - 1
        IN  (n \div (256 ^ k)) % 256]

\* mutant: the fields laid out in the reverse of the declared order
Memory_M(self_) ==
    [i \in 1..Dim(self_) |->
        self_[CHOOSE g \in DOMAIN self_ : FieldRank(g) = Dim(self_) + 1 - i]]

\* the memory of the #[repr(C)] struct: its fields in declared order, with no
\* padding between elements of one type
Memory(self_) ==
    [i \in 1..Dim(self_) |->
        self_[CHOOSE g \in DOMAIN self_ : FieldRank(g) = i]]

\* the struct after the element at position i (from 1) of its memory was
\* overwritten with c
Written(self_, i, c) ==
    [g \in DOMAIN self_ |-> IF FieldRank(g) = i THEN c ELSE self_[g]]

\* std::slice::from_raw_parts(self as *const $n as *const $t, N), with N the
\* literal of the macro: 2 in vec2i!, 3 in vec3i!, 4 in vec4i!
as_slice(self_) ==
    LET len == CASE Dim(self_) = 2 -> 2 [] Dim(self_) = 3 -> 3
                 [] Dim(self_) = 4 -> 4
    IN  [i \in 1..len |-> Memory(self_)[i]]

\* mutant: the length of the byte view counted in elements
as_byte_slice_M(self_, big_endian) ==
    LET len == CASE Dim(self_) = 2 -> 2 [] Dim(self_) = 3 -> 3
                 [] Dim(self_) = 4 -> 4
    IN  [j \in 1..len |->
            to_ne_bytes(kind, Memory(self_)[((j - 1) \div size_of(kind)) + 1],
                        big_endian)[((j - 1) % size_of(kind)) + 1]]

\* std::slice::from_raw_parts(self as *const $n as *const u8,
\*                            N * std::mem::size_of::<$t>())
as_byte_slice(self_, big_endian) ==
    LET len == CASE Dim(self_) = 2 -> 2 * size_of(kind)
                 [] Dim(self_) = 3 -> 3 * size_of(kind)
                 [] Dim(self_) = 4 -> 4 * size_of(kind)
    IN  [j \in 1..len |->
            to_ne_bytes(kind, Memory(self_)[((j - 1) \div size_of(kind)) + 1],
                        big_endian)[((j - 1) % size_of(kind)) + 1]]

\* std::slice::from_raw_parts_mut(self as *mut $n as *mut $t, N): the same
\* memory as as_slice, borrowed mutably
as_mut_slice(self_) ==
    LET len == CASE Dim(self_) = 2 -> 2 [] Dim(self_) = 3 -> 3
                 [] Dim(self_) = 4 -> 4
    IN  [i \in 1..len |-> Memory(self_)[i]]

\* std::slice::from_raw_parts_mut(self as *mut $n as *mut u8,
\*                                N * std::mem::size_of::<$t>())
as_mut_byte_slice(self_, big_endian) ==
    LET len == CASE Dim(self_) = 2 -> 2 * size_of(kind)
                 [] Dim(self_) = 3 -> 3 * size_of(kind)
                 [] Dim(self_) = 4 -> 4 * size_of(kind)
    IN  [j \in 1..len |->
            to_ne_bytes(kind, Memory(self_)[((j - 1) \div size_of(kind)) + 1],
                        big_endian)[((j - 1) % size_of(kind)) + 1]]

-----------------------------------------------------------------------------
(* Inputs *)

\* sample values of element kind t: the extremes of the range, the values
\* next to zero, and a value that has a proper quotient and product
Vals(t) ==
    IF t = "i32" THEN {MinOf(t), 0 - 1, 0, 1, 2} ELSE {0, 1, 2, MaxOf(t)}

\* the vector of n components holding c at position p and d elsewhere
OneOff(n, p, c, d) ==
    CASE n = 2 -> Vec2_new(IF p = 1 THEN c ELSE d, IF p = 2 THEN c ELSE d)
      [] n = 3 -> Vec3_new(IF p = 1 THEN c ELSE d, IF p = 2 THEN c ELSE d,
                           IF p = 3 THEN c ELSE d)
      [] n = 4 -> Vec4_new(IF p = 1 THEN c ELSE d, IF p = 2 THEN c ELSE d,
                           IF p = 3 THEN c ELSE d, IF p = 4 THEN c ELSE d)

OneOffVecs(t, n, Back) ==
    {OneOff(n, p, c, d) : p \in 1..n, c \in Vals(t), d \in Back}

\* Vec4i::new(2, 4, 6, 2), the homogeneous point of the documented scenario
ScenarioVecs == {Vec4_new(2, 4, 6, 2)}

\* the boxes <<min, max>> a vector of n components is clamped to: the same
\* bounds for every component (a sample value or the 3 of the documented
\* scenario), or bounds of their own for one component; boxes with min above
\* max included
Boxes(t, n) ==
    {<<OneOff(n, 1, lo, lo), OneOff(n, 1, hi, hi)>> :
        lo \in Vals(t) \cup {3}, hi \in Vals(t) \cup {3}}
    \cup {<<OneOff(n, p, lo, 0), OneOff(n, p, hi, 2)>> :
        p \in 1..n, lo \in Vals(t), hi \in Vals(t)}

\* the vectors an operation is started from
InputVecs(t) ==
    [x : Vals(t), y : Vals(t)]
        \cup [x : Vals(t), y : Vals(t), z : Vals(t)]
        \cup OneOffVecs(t, 4, Vals(t))
        \cup ScenarioVecs

\* right-hand vectors of the component-wise operators, of r's dimension:
\* every sample value at every position, over a background of 0 or of 1
ArithOperands(r) == OneOffVecs(kind, Dim(r), {0, 1})

\* second vectors of dot and cross, of r's dimension
GeomOperands(r) == {u \in InputVecs(kind) : Dim(u) = Dim(r)}

-----------------------------------------------------------------------------
(* The driver: one action per operation of the vector API *)

\* name of the last operation applied
Op == IF hist = <<>> THEN "init" ELSE hist[Len(hist)]

\* an operation is applied to a live receiver, while the driver has fuel
Step(name) ==
    /\ ~panicked
    /\ fuel > 0
    /\ fuel' = fuel - 1
    /\ hist' = Append(hist, name)
    /\ prev' = self
    /\ UNCHANGED <<overflow_checks, kind, v>>

\* a value-returning operation: its result becomes the current value, and a
\* panic leaves the receiver as it was
Returns(result) ==
    /\ panicked' = Unwound(result)
    /\ self' = IF Unwound(result) THEN self ELSE result

\* an in-place operation: the receiver keeps what was stored before a panic
InPlace(result) ==
    /\ panicked' = Unwound(result)
    /\ self' = Kept(self, result)

\* a scalar-valued operation
Yields(result) ==
    /\ panicked' = (result = PANIC)
    /\ sres' = IF result = PANIC THEN sres ELSE result

Add ==
    /\ Step("add")
    /\ \E r \in ArithOperands(self) :
          /\ rhs' = r
          /\ Returns(CASE Dim(self) = 2 -> Vec2_add(self, r)
                       [] Dim(self) = 3 -> Vec3_add(self, r)
                       [] Dim(self) = 4 -> Vec4_add(self, r))
    /\ UNCHANGED <<s, index, sres,
                 min, max, multiplier, addend, func, view>>

AddAssign ==
    /\ Step("add_assign")
    /\ \E r \in ArithOperands(self) :
          /\ rhs' = r
          /\ InPlace(CASE Dim(self) = 2 -> Vec2_add_assign(self, r)
                       [] Dim(self) = 3 -> Vec3_add_assign(self, r)
                       [] Dim(self) = 4 -> Vec4_add_assign(self, r))
    /\ UNCHANGED <<s, index, sres,
                 min, max, multiplier, addend, func, view>>

Sub ==
    /\ Step("sub")
    /\ \E r \in ArithOperands(self) :
          /\ rhs' = r
          /\ Returns(CASE Dim(self) = 2 -> Vec2_sub(self, r)
                       [] Dim(self) = 3 -> Vec3_sub(self, r)
                       [] Dim(self) = 4 -> Vec4_sub(self, r))
    /\ UNCHANGED <<s, index, sres,
                 min, max, multiplier, addend, func, view>>

SubAssign ==
    /\ Step("sub_assign")
    /\ \E r \in ArithOperands(self) :
          /\ rhs' = r
          /\ InPlace(CASE Dim(self) = 2 -> Vec2_sub_assign(self, r)
                       [] Dim(self) = 3 -> Vec3_sub_assign(self, r)
                       [] Dim(self) = 4 -> Vec4_sub_assign(self, r))
    /\ UNCHANGED <<s, index, sres,
                 min, max, multiplier, addend, func, view>>

Mul ==
    /\ Step("mul")
    /\ \E r \in ArithOperands(self) :
          /\ rhs' = r
          /\ Returns(CASE Dim(self) = 2 -> Vec2_mul(self, r)
                       [] Dim(self) = 3 -> Vec3_mul(self, r)
                       [] Dim(self) = 4 -> Vec4_mul(self, r))
    /\ UNCHANGED <<s, index, sres,
                 min, max, multiplier, addend, func, view>>

MulAssign ==
    /\ Step("mul_assign")
    /\ \E r \in ArithOperands(self) :
          /\ rhs' = r
          /\ InPlace(CASE Dim(self) = 2 -> Vec2_mul_assign(self, r)
                       [] Dim(self) = 3 -> Vec3_mul_assign(self, r)
                       [] Dim(self) = 4 -> Vec4_mul_assign(self, r))
    /\ UNCHANGED <<s, index, sres,
                 min, max, multiplier, addend, func, view>>

\* c * self
ScalarMul(c) ==
    /\ Step("scalar_mul")
    /\ s' = c
    /\ Returns(CASE Dim(self) = 2 -> Vec2_scalar_mul(c, self)
                 [] Dim(self) = 3 -> Vec3_scalar_mul(c, self)
                 [] Dim(self) = 4 -> Vec4_scalar_mul(c, self))
    /\ UNCHANGED <<rhs, index, sres,
                 min, max, multiplier, addend, func, view>>

\* self * c
MulScalar(c) ==
    /\ Step("mul_scalar")
    /\ s' = c
    /\ Returns(CASE Dim(self) = 2 -> Vec2_mul_scalar(self, c)
                 [] Dim(self) = 3 -> Vec3_mul_scalar(self, c)
                 [] Dim(self) = 4 -> Vec4_mul_scalar(self, c))
    /\ UNCHANGED <<rhs, index, sres,
                 min, max, multiplier, addend, func, view>>

\* self *= c
MulAssignScalar(c) ==
    /\ Step("mul_assign_scalar")
    /\ s' = c
    /\ InPlace(CASE Dim(self) = 2 -> Vec2_mul_assign_scalar(self, c)
                 [] Dim(self) = 3 -> Vec3_mul_assign_scalar(self, c)
                 [] Dim(self) = 4 -> Vec4_mul_assign_scalar(self, c))
    /\ UNCHANGED <<rhs, index, sres,
                 min, max, multiplier, addend, func, view>>

Div ==
    /\ Step("div")
    /\ \E r \in ArithOperands(self) :
          /\ rhs' = r
          /\ Returns(CASE Dim(self) = 2 -> Vec2_div(self, r)
                       [] Dim(self) = 3 -> Vec3_div(self, r)
                       [] Dim(self) = 4 -> Vec4_div(self, r))
    /\ UNCHANGED <<s, index, sres,
                 min, max, multiplier, addend, func, view>>

DivAssign ==
    /\ Step("div_assign")
    /\ \E r \in ArithOperands(self) :
          /\ rhs' = r
          /\ InPlace(CASE Dim(self) = 2 -> Vec2_div_assign(self, r)
                       [] Dim(self) = 3 -> Vec3_div_assign(self, r)
                       [] Dim(self) = 4 -> Vec4_div_assign(self, r))
    /\ UNCHANGED <<s, index, sres,
                 min, max, multiplier, addend, func, view>>

\* self / c
DivScalar(c) ==
    /\ Step("div_scalar")
    /\ s' = c
    /\ Returns(CASE Dim(self) = 2 -> Vec2_div_scalar(self, c)
                 [] Dim(self) = 3 -> Vec3_div_scalar(self, c)
                 [] Dim(self) = 4 -> Vec4_div_scalar(self, c))
    /\ UNCHANGED <<rhs, index, sres,
                 min, max, multiplier, addend, func, view>>

\* self /= c
DivAssignScalar(c) ==
    /\ Step("div_assign_scalar")
    /\ s' = c
    /\ InPlace(CASE Dim(self) = 2 -> Vec2_div_assign_scalar(self, c)
                 [] Dim(self) = 3 -> Vec3_div_assign_scalar(self, c)
                 [] Dim(self) = 4 -> Vec4_div_assign_scalar(self, c))
    /\ UNCHANGED <<rhs, index, sres,
                 min, max, multiplier, addend, func, view>>

\* self.into_homogeneous_point(), of Vec2 and Vec3
IntoHomogeneousPoint ==
    /\ Dim(self) \in {2, 3}
    /\ Step("into_homogeneous_point")
    /\ Returns(CASE Dim(self) = 2 -> Vec2_into_homogeneous_point(self)
                 [] Dim(self) = 3 -> Vec3_into_homogeneous_point(self))
    /\ UNCHANGED <<rhs, s, index, sres,
                 min, max, multiplier, addend, func, view>>

\* self.into_homogeneous_vector(), of Vec2 and Vec3
IntoHomogeneousVector ==
    /\ Dim(self) \in {2, 3}
    /\ Step("into_homogeneous_vector")
    /\ Returns(CASE Dim(self) = 2 -> Vec2_into_homogeneous_vector(self)
                 [] Dim(self) = 3 -> Vec3_into_homogeneous_vector(self))
    /\ UNCHANGED <<rhs, s, index, sres,
                 min, max, multiplier, addend, func, view>>

\* Vec2::from_homogeneous_point(self) of a Vec3, Vec3::.. of a Vec4
FromHomogeneousPoint ==
    /\ Dim(self) \in {3, 4}
    /\ Step("from_homogeneous_point")
    /\ Returns(CASE Dim(self) = 3 -> Vec2_from_homogeneous_point(self)
                 [] Dim(self) = 4 -> Vec3_from_homogeneous_point(self))
    /\ UNCHANGED <<rhs, s, index, sres,
                 min, max, multiplier, addend, func, view>>

\* Vec2::from_homogeneous_vector(self) of a Vec3, Vec3::.. of a Vec4
FromHomogeneousVector ==
    /\ Dim(self) \in {3, 4}
    /\ Step("from_homogeneous_vector")
    /\ Returns(CASE Dim(self) = 3 -> Vec2_from_homogeneous_vector(self)
                 [] Dim(self) = 4 -> Vec3_from_homogeneous_vector(self))
    /\ UNCHANGED <<rhs, s, index, sres,
                 min, max, multiplier, addend, func, view>>

\* self.dot(r)
Dot ==
    /\ Step("dot")
    /\ \E r \in GeomOperands(self) :
          /\ rhs' = r
          /\ Yields(CASE Dim(self) = 2 -> Vec2_dot(self, r)
                      [] Dim(self) = 3 -> Vec3_dot(self, r)
                      [] Dim(self) = 4 -> Vec4_dot(self, r))
    /\ UNCHANGED <<self, s, index,
                 min, max, multiplier, addend, func, view>>

\* self.cross(r), of Vec3
Cross ==
    /\ Dim(self) = 3
    /\ Step("cross")
    /\ \E r \in GeomOperands(self) :
          /\ rhs' = r
          /\ Returns(Vec3_cross(self, r))
    /\ UNCHANGED <<s, index, sres,
                 min, max, multiplier, addend, func, view>>

\* self[i]
Index ==
    /\ Step("index")
    /\ \E i \in 0..MaxIndex :
          /\ index' = i
          /\ Yields(CASE Dim(self) = 2 -> Vec2_index(self, i)
                      [] Dim(self) = 3 -> Vec3_index(self, i)
                      [] Dim(self) = 4 -> Vec4_index(self, i))
    /\ UNCHANGED <<self, rhs, s,
                 min, max, multiplier, addend, func, view>>

\* self[i] = c
IndexMut ==
    /\ Step("index_mut")
    /\ \E i \in 0..MaxIndex, c \in Vals(kind) :
          LET place == CASE Dim(self) = 2 -> Vec2_index_mut(self, i)
                         [] Dim(self) = 3 -> Vec3_index_mut(self, i)
                         [] Dim(self) = 4 -> Vec4_index_mut(self, i)
          IN  /\ index' = i
              /\ s' = c
              /\ panicked' = (place = NoPlace)
              /\ self' = IF place = NoPlace THEN self
                         ELSE [self EXCEPT ![place] = c]
    /\ UNCHANGED <<rhs, sres,
                 min, max, multiplier, addend, func, view>>

\* self.xyz(), of Vec2
Xyz ==
    /\ Dim(self) = 2
    /\ Step("xyz")
    /\ Returns(Vec2_xyz(self))
    /\ UNCHANGED <<rhs, s, index, sres,
                 min, max, multiplier, addend, func, view>>

\* self.xyzw(), of Vec2 and Vec3
Xyzw ==
    /\ Dim(self) \in {2, 3}
    /\ Step("xyzw")
    /\ Returns(CASE Dim(self) = 2 -> Vec2_xyzw(self)
                 [] Dim(self) = 3 -> Vec3_xyzw(self))
    /\ UNCHANGED <<rhs, s, index, sres,
                 min, max, multiplier, addend, func, view>>

\* Vec4::from(self), of a Vec3
FromNarrower ==
    /\ Dim(self) = 3
    /\ Step("from_narrower")
    /\ Returns(Vec4_from_Vec3(self))
    /\ UNCHANGED <<rhs, s, index, sres,
                 min, max, multiplier, addend, func, view>>

\* Vec2::from(self) of a Vec3, Vec3::from(self) of a Vec4
FromWider ==
    /\ Dim(self) \in {3, 4}
    /\ Step("from_wider")
    /\ Returns(CASE Dim(self) = 3 -> Vec2_from_Vec3(self)
                 [] Dim(self) = 4 -> Vec3_from_Vec4(self))
    /\ UNCHANGED <<rhs, s, index, sres,
                 min, max, multiplier, addend, func, view>>

\* self.as_slice()
AsSlice ==
    /\ Step("as_slice")
    /\ view' = as_slice(self)
    /\ UNCHANGED <<self, rhs, s, index, sres,
                 panicked, min, max, multiplier, addend, func>>

\* self.as_byte_slice(), on a little- or a big-endian target
AsByteSlice ==
    /\ Step("as_byte_slice")
    /\ \E big_endian \in BOOLEAN : view' = as_byte_slice(self, big_endian)
    /\ UNCHANGED <<self, rhs, s, index, sres,
                 panicked, min, max, multiplier, addend, func>>

\* self.as_mut_slice()
AsMutSlice ==
    /\ Step("as_mut_slice")
    /\ view' = as_mut_slice(self)
    /\ UNCHANGED <<self, rhs, s, index, sres,
                 panicked, min, max, multiplier, addend, func>>

\* self.as_mut_byte_slice(), on a little- or a big-endian target
AsMutByteSlice ==
    /\ Step("as_mut_byte_slice")
    /\ \E big_endian \in BOOLEAN : view' = as_mut_byte_slice(self, big_endian)
    /\ UNCHANGED <<self, rhs, s, index, sres,
                 panicked, min, max, multiplier, addend, func>>

\* self.mag_sq()
MagSq ==
    /\ Step("mag_sq")
    /\ Yields(CASE Dim(self) = 2 -> Vec2_mag_sq(self)
                [] Dim(self) = 3 -> Vec3_mag_sq(self)
                [] Dim(self) = 4 -> Vec4_mag_sq(self))
    /\ UNCHANGED <<self, rhs, s, index, min,
                 max, multiplier, addend, func, view>>

\* self.mag()
Mag ==
    /\ Step("mag")
    /\ Yields(CASE Dim(self) = 2 -> Vec2_mag(self)
                [] Dim(self) = 3 -> Vec3_mag(self)
                [] Dim(self) = 4 -> Vec4_mag(self))
    /\ UNCHANGED <<self, rhs, s, index, min,
                 max, multiplier, addend, func, view>>

\* self.clamp(lo, hi)
Clamp ==
    /\ Step("clamp")
    /\ \E box \in Boxes(kind, Dim(self)) :
          /\ min' = box[1]
          /\ max' = box[2]
          /\ InPlace(CASE Dim(self) = 2 -> Vec2_clamp(self, box[1], box[2])
                       [] Dim(self) = 3 -> Vec3_clamp(self, box[1], box[2])
                       [] Dim(self) = 4 -> Vec4_clamp(self, box[1], box[2]))
    /\ UNCHANGED <<rhs, s, index, sres, multiplier, addend, func, view>>

\* self.clamped(lo, hi)
Clamped ==
    /\ Step("clamped")
    /\ \E box \in Boxes(kind, Dim(self)) :
          /\ min' = box[1]
          /\ max' = box[2]
          /\ Returns(CASE Dim(self) = 2 -> Vec2_clamped(self, box[1], box[2])
                       [] Dim(self) = 3 -> Vec3_clamped(self, box[1], box[2])
                       [] Dim(self) = 4 -> Vec4_clamped(self, box[1], box[2]))
    /\ UNCHANGED <<rhs, s, index, sres, multiplier, addend, func, view>>

\* self.abs(), of Vec2 and Vec3: the impl of the 4-component family has no
\* such method
VecAbs ==
    /\ Dim(self) \in {2, 3}
    /\ Step("abs")
    /\ Returns(CASE Dim(self) = 2 -> Vec2_abs(self)
                 [] Dim(self) = 3 -> Vec3_abs(self))
    /\ UNCHANGED <<rhs, s, index, sres, min,
                 max, multiplier, addend, func, view>>

\* c.mul_add(m, d) of the scalars: MulAdd for u32 and for i32
ScalarMulAdd ==
    /\ Step("mul_add")
    /\ \E c \in Vals(kind), m \in MinOf(kind)..MaxOf(kind), d \in Vals(kind) :
          /\ s' = c
          /\ multiplier' = m
          /\ addend' = d
          /\ Yields(mul_add(kind, c, m, d))
    /\ UNCHANGED <<self, rhs, index, min, max, func, view>>

\* self.reflect(r), of Vec3 and Vec4: the 2-component family has no reflect
Reflect ==
    /\ Dim(self) \in {3, 4}
    /\ Step("reflect")
    /\ \E r \in GeomOperands(self) :
          /\ rhs' = r
          /\ InPlace(CASE Dim(self) = 3 -> Vec3_reflect(self, r)
                       [] Dim(self) = 4 -> Vec4_reflect(self, r))
    /\ UNCHANGED <<s, index, sres, min, max, multiplier, addend, func, view>>

\* self.reflected(r)
Reflected ==
    /\ Step("reflected")
    /\ \E r \in GeomOperands(self) :
          /\ rhs' = r
          /\ Returns(CASE Dim(self) = 2 -> Vec2_reflected(self, r)
                       [] Dim(self) = 3 -> Vec3_reflected(self, r)
                       [] Dim(self) = 4 -> Vec4_reflected(self, r))
    /\ UNCHANGED <<s, index, sres, min, max, multiplier, addend, func, view>>

\* self.apply(f)
Apply ==
    /\ Step("apply")
    /\ \E fn \in {"id", "succ", "halve", "zero"} :
          /\ func' = fn
          /\ InPlace(CASE Dim(self) = 2 -> Vec2_apply(self, fn)
                       [] Dim(self) = 3 -> Vec3_apply(self, fn)
                       [] Dim(self) = 4 -> Vec4_apply(self, fn))
    /\ UNCHANGED <<rhs, s, index, sres, min, max, multiplier, addend, view>>

\* self.as_mut_slice()[i] = c: the slice checks i against its length and
\* panics beyond it; the store goes to the memory of the receiver
AsMutSliceWrite ==
    /\ Step("as_mut_slice_write")
    /\ \E i \in 0..MaxIndex, c \in Vals(kind) :
          LET slice == as_mut_slice(self)
          IN  /\ index' = i
              /\ s' = c
              /\ panicked' = (i >= Len(slice))
              /\ view' = IF i >= Len(slice) THEN view
                         ELSE [slice EXCEPT ![i + 1] = c]
              /\ self' = IF i >= Len(slice) THEN self
                         ELSE Written(self, i + 1, c)
    /\ UNCHANGED <<rhs, sres, min, max, multiplier, addend, func>>

-----------------------------------------------------------------------------
(* Specifications *)

\* the state before the first operation: a build profile, a family, an input
\* vector, the scalar operand drawn from Scalars, and budget operations to go
InitWith(budget, Scalars) ==
    /\ overflow_checks \in BOOLEAN
    /\ kind \in Kinds
    /\ v \in InputVecs(kind)
    /\ self = v
    /\ rhs = v
    /\ s \in Scalars
    /\ index = 0
    /\ hist = <<>>
    /\ sres = 0
    /\ panicked = FALSE
    /\ fuel = budget
    /\ prev = v
    /\ min = v
    /\ max = v
    /\ multiplier = 0
    /\ addend = 0
    /\ func = "none"
    /\ view = <<>>

\* the same, from an input vector of Vecs that is of the element kind
InitOn(Vecs, budget, Scalars) ==
    /\ overflow_checks \in BOOLEAN
    /\ kind \in Kinds
    /\ v \in {u \in Vecs : \A g \in DOMAIN u : InRange(kind, u[g])}
    /\ self = v
    /\ rhs = v
    /\ s \in Scalars
    /\ index = 0
    /\ hist = <<>>
    /\ sres = 0
    /\ panicked = FALSE
    /\ fuel = budget
    /\ prev = v
    /\ min = v
    /\ max = v
    /\ multiplier = 0
    /\ addend = 0
    /\ func = "none"
    /\ view = <<>>

\* the component-wise operators, each applied once to an input
InitArith == InitWith(1, {0})

NextArith ==
    \/ Add \/ AddAssign \/ Sub \/ SubAssign
    \/ Mul \/ MulAssign \/ Div \/ DivAssign
    \/ \E c \in Vals(kind) : ScalarMul(c)
    \/ \E c \in Vals(kind) : MulScalar(c)
    \/ \E c \in Vals(kind) : MulAssignScalar(c)
    \/ \E c \in Vals(kind) : DivScalar(c)
    \/ \E c \in Vals(kind) : DivAssignScalar(c)
    \/ FromHomogeneousPoint

SpecArith == InitArith /\ [][NextArith]_vars

\* the homogeneous conversions, chained
InitConv == InitWith(MaxSteps, {0})

NextConv ==
    \/ IntoHomogeneousPoint \/ IntoHomogeneousVector
    \/ FromHomogeneousPoint \/ FromHomogeneousVector

SpecConv == InitConv /\ [][NextConv]_vars

\* multiplication and division by one scalar, chained
InitScale == InitWith(MaxSteps, Vals(kind))

NextScale == MulScalar(s) \/ DivScalar(s)

SpecScale == InitScale /\ [][NextScale]_vars

\* dot and cross products, each applied once
InitGeom == InitWith(1, {0})

NextGeom == Dot \/ Cross

SpecGeom == InitGeom /\ [][NextGeom]_vars

\* indexing, read and write, each applied once
InitIndex == InitWith(1, {0})

NextIndex == Index \/ IndexMut

SpecIndex == InitIndex /\ [][NextIndex]_vars

\* the plain conversions between the families, each applied once
InitPlain == InitWith(1, {0})

NextPlain == Xyz \/ Xyzw \/ FromNarrower \/ FromWider \/ FromHomogeneousVector

SpecPlain == InitPlain /\ [][NextPlain]_vars

\* the raw views, each taken once
InitView == InitWith(1, {0})

NextView == AsSlice \/ AsByteSlice \/ AsMutSlice \/ AsMutByteSlice

SpecView == InitView /\ [][NextView]_vars

\* the magnitudes, each taken once; among the inputs the 2-component vectors
\* whose squares stay near the range of the element kinds, so that the
\* squared magnitudes cover the range and leave it
InitMag ==
    InitOn(InputVecs("u32") \cup InputVecs("i32")
               \cup [x : 0..(2 ^ (Bits \div 2) - 1),
                     y : 0..(2 ^ (Bits \div 2) - 1)],
           1, {0})

NextMag == MagSq \/ Mag

SpecMag == InitMag /\ [][NextMag]_vars

\* clamping, each form applied once; among the inputs Vec2u::broadcast(5),
\* the receiver of the documented scenario
InitClamp ==
    InitOn(InputVecs("u32") \cup InputVecs("i32") \cup {Vec2_broadcast(5)},
           1, {0})

NextClamp == Clamp \/ Clamped

SpecClamp == InitClamp /\ [][NextClamp]_vars

\* abs, applied once
InitAbs == InitWith(1, {0})

NextAbs == VecAbs

SpecAbs == InitAbs /\ [][NextAbs]_vars

\* the scalar fused multiply-add, applied once (no vector takes part)
InitMulAdd == InitOn({Vec2_zero}, 1, {0})

NextMulAdd == ScalarMulAdd

SpecMulAdd == InitMulAdd /\ [][NextMulAdd]_vars

\* reflection, each form applied once
InitReflect == InitWith(1, {0})

NextReflect == Reflect \/ Reflected

SpecReflect == InitReflect /\ [][NextReflect]_vars

\* the in-place operations, chained.  The chains start from a vector of each
\* family, (1, .., 1, 2), and from (0, 2, 2), and take their operands from
\* small sets: a vector of ones but for a first component 0 or 2 or a last
\* component at an end of the range, the scalars 0, 2 and an end of the
\* range, two boxes (one of them with min above max)
InitInPlace ==
    InitOn({OneOff(n, n, 2, 1) : n \in 2..4} \cup {OneOff(3, 1, 0, 2)},
           MaxSteps, {0})

ChainOperand ==
    rhs' \in {OneOff(Dim(self), 1, c, 1) : c \in {0, 2}}
                \cup {OneOff(Dim(self), Dim(self), c, 1) :
                         c \in {MinOf(kind), MaxOf(kind)}}

ChainScalar == s' \in {0, 2, MinOf(kind), MaxOf(kind)}

ChainBox ==
    <<min', max'>> \in
        {<<OneOff(Dim(self), 1, lo, 0), OneOff(Dim(self), 1, hi, 2)>> :
            lo \in {0, 2}, hi \in {1}}

NextInPlace ==
    \/ AddAssign /\ ChainOperand
    \/ SubAssign /\ ChainOperand
    \/ MulAssign /\ ChainOperand
    \/ DivAssign /\ ChainOperand
    \/ (\E c \in Vals(kind) : MulAssignScalar(c)) /\ ChainScalar
    \/ (\E c \in Vals(kind) : DivAssignScalar(c)) /\ ChainScalar
    \/ Clamp /\ ChainBox
    \/ Apply

SpecInPlace == InitInPlace /\ [][NextInPlace]_vars

\* the element view and the writes to one component, each applied once
InitLayout == InitWith(1, {0})

NextLayout == AsSlice \/ AsMutSliceWrite \/ IndexMut

SpecLayout == InitLayout /\ [][NextLayout]_vars

\* every operation
Init == InitWith(1, {0})

Next ==
    \/ NextArith \/ NextConv \/ NextGeom \/ NextIndex
    \/ NextPlain \/ NextView \/ NextMag \/ NextClamp \/ NextAbs
    \/ NextMulAdd \/ NextReflect \/ Apply \/ AsMutSliceWrite

Spec == Init /\ [][Next]_vars

-----------------------------------------------------------------------------
(* Vocabulary of the properties *)

\* the components of a vector in declared order
Comps(r) ==
    CASE Dim(r) = 2 -> <<r.x, r.y>>
      [] Dim(r) = 3 -> <<r.x, r.y, r.z>>
      [] Dim(r) = 4 -> <<r.x, r.y, r.z, r.w>>

\* the last (homogeneous) component of a 3- or 4-component vector
HomComp(r) == IF Dim(r) = 3 THEN r.z ELSE r.w

\* the only operation applied so far is name
Only(name) == hist = <<name>>

\* q is the quotient of n by d rounded towards zero
IsTruncatedQuotient(q, n, d) ==
    /\ Abs(q) * Abs(d) <= Abs(n)
    /\ Abs(n) < Abs(q) * Abs(d) + Abs(d)
    /\ IF (n < 0) = (d < 0) THEN q >= 0 ELSE q <= 0

\* the scalar outcome (a value or PANIC) was delivered by the last operation
Delivered(outcome) ==
    IF outcome = PANIC THEN panicked ELSE ~panicked /\ sres = outcome

-----------------------------------------------------------------------------
(* C1 *)

\* C1: homogeneous round trip.  For every 2- and 3-component vector v of
\* both element kinds, from_homogeneous_point(v.into_homogeneous_point())
\* returns v, and from_homogeneous_vector(v.into_homogeneous_vector())
\* returns v; neither panics.
C1_HomogeneousRoundTrip ==
    /\ (hist = <<"into_homogeneous_point", "from_homogeneous_point">>)
          => (~panicked /\ self = v)
    /\ (hist = <<"into_homogeneous_vector", "from_homogeneous_vector">>)
          => (~panicked /\ self = v)

\* a signed 3-component point holding i32::MIN went to Vec4i and came back
C1_Witness ==
    /\ hist = <<"into_homogeneous_point", "from_homogeneous_point">>
    /\ kind = "i32"
    /\ Dim(v) = 3
    /\ v.x = MinOf("i32")
    /\ v.y = 2
    /\ self = v

-----------------------------------------------------------------------------
(* C2 *)

\* the operators +, - and * in all their forms
WrappingOps ==
    {"add", "add_assign", "sub", "sub_assign", "mul", "mul_assign",
     "scalar_mul", "mul_scalar", "mul_assign_scalar"}

\* the exact (unbounded) result of operator name on components a and b
Exact(name, a, b) ==
    CASE name \in {"add", "add_assign"} -> a + b
      [] name \in {"sub", "sub_assign"} -> a - b
      [] OTHER -> a * b

\* the operand that meets component f of the receiver in operator name
OperandAt(name, f) ==
    IF name \in {"scalar_mul", "mul_scalar", "mul_assign_scalar"}
    THEN s ELSE rhs[f]

\* C2: all arithmetic operators wrap.  Component-wise +, - and * (vector
\* with vector, vector with scalar, scalar with vector, and the in-place
\* forms) always return and never panic on overflow; each component of the
\* result is the exact result reduced modulo 2^Bits (two's complement for
\* the signed kind).
C2_ArithmeticWraps ==
    (Len(hist) = 1 /\ Op \in WrappingOps) =>
        /\ ~panicked
        /\ \A f \in DOMAIN v :
              self[f] = Wrap(kind, Exact(Op, v[f], OperandAt(Op, f)))

-----------------------------------------------------------------------------
(* C3 *)

\* C3: scalar multiply/divide round trip.  For every vector v of every family
\* and every nonzero scalar s such that each product component * s is
\* representable in the element kind, (v * s) / s returns v.
C3_ScalarMulDivRoundTrip ==
    ( /\ hist = <<"mul_scalar", "div_scalar">>
      /\ s # 0
      /\ \A f \in DOMAIN v : InRange(kind, v[f] * s) )
        => (~panicked /\ self = v)

\* a Vec4i with distinct negative and positive components, scaled by -1 and
\* back, in a build with overflow checks
C3_Witness ==
    /\ hist = <<"mul_scalar", "div_scalar">>
    /\ overflow_checks
    /\ kind = "i32"
    /\ s = 0 - 1
    /\ Dim(v) = 4
    /\ v.z = 2
    /\ v.w = 0 - 1
    /\ self = v

-----------------------------------------------------------------------------
(* C4 *)

\* b.dot(a), for the vectors of the state
ReverseDot ==
    CASE Dim(v) = 2 -> Vec2_dot(rhs, v)
      [] Dim(v) = 3 -> Vec3_dot(rhs, v)
      [] Dim(v) = 4 -> Vec4_dot(rhs, v)

\* the exact (unbounded) sum of the pairwise products of a and b
ExactDot(a, b) ==
    LET p == [i \in 1..Dim(a) |-> Comps(a)[i] * Comps(b)[i]]
    IN  p[1] + p[2] + (IF Dim(a) > 2 THEN p[3] ELSE 0)
             + (IF Dim(a) > 3 THEN p[4] ELSE 0)

\* C4: dot is commutative.  For every family and all a, b of it, a.dot(b)
\* and b.dot(a) have the same outcome: the same value, also when products
\* or sums leave the range of the element kind, or a panic in both.
C4_DotCommutative ==
    Only("dot") => Delivered(ReverseDot)

\* a.dot(b) of two different Vec3 returned a value although the exact sum
\* of products is out of range: the products wrapped
C4_Witness ==
    /\ Only("dot")
    /\ ~panicked
    /\ Dim(v) = 3
    /\ v # rhs
    /\ ~InRange(kind, ExactDot(v, rhs))
    /\ sres = ReverseDot

-----------------------------------------------------------------------------
(* C5 *)

\* b.cross(a), for the vectors of the state
ReverseCross == Vec3_cross(rhs, v)

\* C5: cross is anti-commutative on the signed 3-component family.  For all
\* Vec3i a and b, the minimum value included, a.cross(b) returns the
\* component-wise (two's complement) negation of b.cross(a).
C5_CrossAntiCommutative ==
    (Only("cross") /\ kind = "i32") =>
        /\ ~panicked
        /\ ~Unwound(ReverseCross)
        /\ \A f \in DOMAIN v : self[f] = Wrap("i32", 0 - ReverseCross[f])

-----------------------------------------------------------------------------
(* C6 *)

\* the textbook cross product, reduced to the element kind
StandardCross(a, b) ==
    [x |-> Wrap(kind, a.y * b.z - a.z * b.y),
     y |-> Wrap(kind, a.z * b.x - a.x * b.z),
     z |-> Wrap(kind, a.x * b.y - a.y * b.x)]

\* C6: cross is the standard 3D cross product for both 3-component families.
\* For all a and b, a.cross(b) returns (a.y*b.z - a.z*b.y, a.z*b.x - a.x*b.z,
\* a.x*b.y - a.y*b.x) in the element kind's arithmetic; in particular
\* Vec3i::unit_x().cross(Vec3i::unit_y()) is Vec3i::unit_z().
C6_CrossIsStandard ==
    Only("cross") =>
        /\ ~panicked
        /\ self = StandardCross(v, rhs)
        /\ (kind = "i32" /\ v = Vec3_unit_x /\ rhs = Vec3_unit_y)
              => self = Vec3_unit_z

-----------------------------------------------------------------------------
(* C7 *)

\* zero() and one() of the family of r
ZeroOf(r) ==
    CASE Dim(r) = 2 -> Vec2_zero [] Dim(r) = 3 -> Vec3_zero
      [] Dim(r) = 4 -> Vec4_zero

OneOf(r) ==
    CASE Dim(r) = 2 -> Vec2_one [] Dim(r) = 3 -> Vec3_one
      [] Dim(r) = 4 -> Vec4_one

\* C7: identity elements.  For every family and every vector v, v + zero()
\* returns v and the component-wise product v * one() returns v.
C7_Identities ==
    /\ (Only("add") /\ rhs = ZeroOf(v)) => (~panicked /\ self = v)
    /\ (Only("mul") /\ rhs = OneOf(v)) => (~panicked /\ self = v)

\* a 3-component vector holding the greatest value of its kind plus zero(),
\* in a build with overflow checks
C7_Witness ==
    /\ Only("add")
    /\ overflow_checks
    /\ Dim(v) = 3
    /\ rhs = Vec3_zero
    /\ v.y = MaxOf("u32")
    /\ v.x = 2
    /\ self = v

-----------------------------------------------------------------------------
(* C8 *)

\* C8: indexing is bounds-checked against the component count.  For a vector
\* of N components, reading position i < N returns the i-th component in
\* declared order and writing through position i < N replaces exactly that
\* component; at any position i >= N both panic, and the write changes
\* nothing.
C8_IndexingBoundsChecked ==
    /\ Only("index") =>
          IF index < Dim(v)
          THEN ~panicked /\ sres = Comps(v)[index + 1]
          ELSE panicked
    /\ Only("index_mut") =>
          IF index < Dim(v)
          THEN ~panicked /\ Comps(self) = [Comps(v) EXCEPT ![index + 1] = s]
          ELSE panicked /\ self = v

\* reading position 3 of a 3-component vector panicked
C8_Witness ==
    /\ Only("index")
    /\ Dim(v) = 3
    /\ index = 3
    /\ panicked

-----------------------------------------------------------------------------
(* C9 *)

HasZero(r) == \E f \in DOMAIN r : r[f] = 0

\* C9: division by zero is fatal and unguarded.  A vector / vector division
\* whose divisor has a zero component, a vector / scalar division by 0, in
\* the value-returning and the in-place forms, and from_homogeneous_point of
\* a vector whose last component is 0 all panic; none returns a vector.
C9_DivisionByZeroFatal ==
    /\ (Only("div") /\ HasZero(rhs)) => (panicked /\ self = v)
    /\ (Only("div_assign") /\ HasZero(rhs)) => panicked
    /\ (Only("div_scalar") /\ s = 0) => (panicked /\ self = v)
    /\ (Only("div_assign_scalar") /\ s = 0) => (panicked /\ self = v)
    /\ (Only("from_homogeneous_point") /\ HomComp(v) = 0)
          => (panicked /\ self = v)

\* v /= (2, 0, 0): the x component was halved, then the division of y by
\* zero panicked
C9_Witness ==
    /\ Only("div_assign")
    /\ Dim(v) = 3
    /\ rhs = Vec3_new(2, 0, 0)
    /\ v.x = 2
    /\ self.x = 1
    /\ self.y = v.y
    /\ panicked

-----------------------------------------------------------------------------
(* C10 *)

\* the signed quotient that does not exist: i32::MIN / -1
QuotientOverflows(n, d) == kind = "i32" /\ n = MinOf("i32") /\ d = 0 - 1

\* C10: from_homogeneous_point narrows by homogeneous division.  For every
\* 3-component v with v.z # 0 and every 4-component v with v.w # 0 the result
\* has the components before the last, each divided by the last with the
\* element kind's division: the quotient rounded towards zero, and a panic
\* where that division has no result (i32::MIN / -1).  In particular
\* Vec4i(2, 4, 6, 2) narrows to Vec3i(1, 2, 3).
C10_HomogeneousDivision ==
    (Only("from_homogeneous_point") /\ HomComp(v) # 0) =>
        LET h == HomComp(v)
            kept == 1..(Dim(v) - 1)
        IN  IF \E i \in kept : QuotientOverflows(Comps(v)[i], h)
            THEN panicked
            ELSE /\ ~panicked
                 /\ Dim(self) = Dim(v) - 1
                 /\ \A i \in kept :
                       IsTruncatedQuotient(Comps(self)[i], Comps(v)[i], h)
                 /\ (kind = "i32" /\ v = Vec4_new(2, 4, 6, 2))
                       => self = Vec3_new(1, 2, 3)

\* Vec4i(2, 4, 6, 2) narrowed to Vec3i(1, 2, 3)
C10_Witness ==
    /\ Only("from_homogeneous_point")
    /\ kind = "i32"
    /\ v = Vec4_new(2, 4, 6, 2)
    /\ self = Vec3_new(1, 2, 3)
    /\ ~panicked

-----------------------------------------------------------------------------
(* C11 *)

\* n zeros
Zeros(n) == [i \in 1..n |-> 0]

\* the components of r before the last
Retained(r) == SubSeq(Comps(r), 1, Dim(r) - 1)

\* C11: the plain conversions never divide and never alter a retained
\* component.  For every 3- and 4-component v, from_homogeneous_vector(v) and
\* the plain narrowing conversion (Vec2::from, Vec3::from) both return the
\* components of v before the last, whatever the last one is (zero included);
\* Vec2::xyz, Vec2::xyzw, Vec3::xyzw and Vec4::from(Vec3) return the
\* components of v followed by 0 in every added place.  None panics.
C11_PlainConversions ==
    /\ (Only("from_homogeneous_vector") \/ Only("from_wider"))
          => (~panicked /\ Comps(self) = Retained(v))
    /\ Only("xyz") => (~panicked /\ Comps(self) = Comps(v) \o Zeros(1))
    /\ Only("xyzw") => (~panicked /\ Comps(self) = Comps(v) \o Zeros(4 - Dim(v)))
    /\ Only("from_narrower") => (~panicked /\ Comps(self) = Comps(v) \o Zeros(1))

\* the vector part of Vec4i(2, 4, 6, 2): the components stay 2, 4, 6 although
\* the last component is 2
C11_Witness ==
    /\ Only("from_homogeneous_vector")
    /\ v = Vec4_new(2, 4, 6, 2)
    /\ self = Vec3_new(2, 4, 6)
    /\ ~panicked

-----------------------------------------------------------------------------
(* C12 *)

\* the operations handing out a view of bytes, and a view of elements
ByteViews == {"as_byte_slice", "as_mut_byte_slice"}

ElementViews == {"as_slice", "as_mut_slice"}

\* C12: raw view lengths.  For every family and element kind the byte views
\* (as_byte_slice, as_mut_byte_slice) have component_count * 4 bytes, which is
\* 8, 12 and 16 for 2, 3 and 4 components, and the element views (as_slice,
\* as_mut_slice) have component_count elements; taking a view does not panic
\* and leaves the vector as it was.
C12_ViewLengths ==
    /\ (Len(hist) = 1 /\ Op \in ByteViews) =>
          /\ ~panicked /\ self = v
          /\ Len(view) = Cardinality(DOMAIN v) * 4
          /\ Len(view) = (CASE Dim(v) = 2 -> 8 [] Dim(v) = 3 -> 12
                            [] Dim(v) = 4 -> 16)
    /\ (Len(hist) = 1 /\ Op \in ElementViews) =>
          /\ ~panicked /\ self = v
          /\ Len(view) = Cardinality(DOMAIN v)

\* the byte view of a signed 3-component vector has 12 bytes, the first four
\* of them those of -1
C12_Witness ==
    /\ Only("as_byte_slice")
    /\ kind = "i32"
    /\ Dim(v) = 3
    /\ v.x = 0 - 1
    /\ Len(view) = 12
    /\ SubSeq(view, 1, 4) = <<255, 255, 255, 255>>

-----------------------------------------------------------------------------
(* C13 *)

\* v.mag_sq(), for the input vector of the state
MagSqOf(r) ==
    CASE Dim(r) = 2 -> Vec2_mag_sq(r) [] Dim(r) = 3 -> Vec3_mag_sq(r)
      [] Dim(r) = 4 -> Vec4_mag_sq(r)

\* C13: mag is the truncated square root of mag_sq.  For every vector whose
\* mag_sq() returns a non-negative value m, mag() returns the largest integer
\* r with r * r <= m.  In particular Vec2i::new(3, 4) has mag_sq() = 25 and
\* mag() = 5.
C13_MagIsTruncatedRoot ==
    /\ (Only("mag") /\ MagSqOf(v) # PANIC /\ MagSqOf(v) >= 0) =>
          /\ ~panicked
          /\ sres >= 0
          /\ sres * sres <= MagSqOf(v)
          /\ MagSqOf(v) < (sres + 1) * (sres + 1)
    /\ (Only("mag") /\ kind = "i32" /\ v = Vec2_new(3, 4)) => sres = 5
    /\ (Only("mag_sq") /\ kind = "i32" /\ v = Vec2_new(3, 4))
          => (~panicked /\ sres = 25)

\* mag() of (5, 10), whose mag_sq() is 125, is 11: the root 11.18 was cut,
\* in both build profiles
C13_Witness ==
    /\ Only("mag")
    /\ ~panicked
    /\ v = Vec2_new(5, 10)
    /\ MagSqOf(v) = 125
    /\ sres = 11

-----------------------------------------------------------------------------
(* C14 *)

\* the smaller and the larger of two integers
Least(m, n) == IF m < n THEN m ELSE n

Greatest(m, n) == IF m < n THEN n ELSE m

\* C14: clamp and clamped bound every component by the box.  For every family
\* and all v, min, max, each component c of v.clamped(min, max), and of v
\* after v.clamp(min, max), is min(max(c, min_c), max_c): it lies in
\* [min_c, max_c] whenever min_c <= max_c, and is c when c already lies
\* there.  In particular
\* Vec2u::broadcast(5).clamped(Vec2u::zero(), Vec2u::broadcast(3)) is
\* Vec2u::broadcast(3).
C14_ClampBoundsComponents ==
    (Only("clamp") \/ Only("clamped")) =>
        /\ ~panicked
        /\ DOMAIN self = DOMAIN v
        /\ \A g \in DOMAIN v :
              /\ self[g] = Least(Greatest(v[g], min[g]), max[g])
              /\ min[g] <= max[g] => (min[g] <= self[g] /\ self[g] <= max[g])
              /\ (min[g] <= v[g] /\ v[g] <= max[g]) => self[g] = v[g]
        /\ (kind = "u32" /\ v = Vec2_broadcast(5) /\ min = Vec2_zero
               /\ max = Vec2_broadcast(3)) => self = Vec2_broadcast(3)

\* the documented scenario
C14_Witness ==
    /\ Only("clamped")
    /\ kind = "u32"
    /\ v = Vec2_broadcast(5)
    /\ min = Vec2_zero
    /\ max = Vec2_broadcast(3)
    /\ self = Vec2_broadcast(3)

-----------------------------------------------------------------------------
(* C15 *)

\* C15: abs is a placeholder identity in every family.  Every vector v of
\* the 2-, 3- and 4-component families, signed or unsigned, has abs(), and
\* v.abs() returns v, negative components of a signed vector included.
C15_AbsIsIdentity ==
    /\ hist = <<>> => ENABLED VecAbs
    /\ Only("abs") => (~panicked /\ self = v)

-----------------------------------------------------------------------------
(* C16 *)

\* C16: the scalar fused multiply-add is multiply-then-add with wraparound.
\* For all values s, a, b of u32 (of i32), s.mul_add(a, b) always returns,
\* and returns s * a + b reduced modulo 2^Bits (two's complement for i32),
\* which is also the wrapped sum of the wrapped product and b.
C16_MulAddWraps ==
    Only("mul_add") =>
        /\ ~panicked
        /\ sres = Wrap(kind, s * multiplier + addend)
        /\ sres = Wrap(kind, Wrap(kind, s * multiplier) + addend)

-----------------------------------------------------------------------------
(* C17 *)

\* the pairwise products summed from the left, ((p1 + p2) + p3) + p4, every
\* sum reduced to the element kind
LeftSum(a_, b_) ==
    LET p == [i \in 1..Dim(a_) |-> Wrap(kind, Comps(a_)[i] * Comps(b_)[i])]
        s2 == Wrap(kind, p[1] + p[2])
        s3 == IF Dim(a_) > 2 THEN Wrap(kind, s2 + p[3]) ELSE s2
    IN  IF Dim(a_) > 3 THEN Wrap(kind, s3 + p[4]) ELSE s3

\* C17: dot is the sum of the pairwise component products.  For every family
\* and all a, b, a.dot(b) returns the sum of a_i * b_i over the components in
\* the element kind's (wrapping) arithmetic; the nested order of evaluation
\* x*ox + (y*oy + (z*oz + w*ow)) gives the value of any other order, such as
\* the sum taken from the left.
C17_DotIsSumOfProducts ==
    Only("dot") =>
        /\ ~panicked
        /\ sres = Wrap(kind, ExactDot(v, rhs))
        /\ sres = LeftSum(v, rhs)

-----------------------------------------------------------------------------
(* C18 *)

\* v.dot(v), for the input vector of the state
SelfDot ==
    CASE Dim(v) = 2 -> Vec2_dot(v, v) [] Dim(v) = 3 -> Vec3_dot(v, v)
      [] Dim(v) = 4 -> Vec4_dot(v, v)

\* C18: mag_sq is the self dot product.  For every family and every vector
\* v, v.mag_sq() has the outcome of v.dot(v): the same value, or a panic
\* where v.dot(v) panics.
C18_MagSqIsSelfDot ==
    Only("mag_sq") => Delivered(SelfDot)

\* mag_sq() of Vec4i(2, -1, -1, -1) returned 7
C18_Witness ==
    /\ Only("mag_sq")
    /\ kind = "i32"
    /\ v = Vec4_new(2, 0 - 1, 0 - 1, 0 - 1)
    /\ ~panicked
    /\ sres = 7

-----------------------------------------------------------------------------
(* C19 *)

\* C19: the reflection formula.  For every family and all v, n,
\* v.reflected(n) returns v - (2 * v.dot(n)) * n, component by component in
\* the element kind's (wrapping) arithmetic; reflect(n) of the 3- and
\* 4-component families leaves the receiver at that value, the dot product
\* being that of the receiver before the update.
C19_ReflectionFormula ==
    (Only("reflected") \/ Only("reflect")) =>
        /\ ~panicked
        /\ \A g \in DOMAIN v :
              self[g] = Wrap(kind, v[g] - (2 * ExactDot(v, rhs)) * rhs[g])

-----------------------------------------------------------------------------
(* C20 *)

\* the in-place operations
InPlaceOps ==
    {"add_assign", "sub_assign", "mul_assign", "div_assign",
     "mul_assign_scalar", "div_assign_scalar", "clamp", "apply"}

\* the value-returning form of the last (in-place) operation, applied to the
\* receiver as it was before that operation and to the same operands:
\* + for +=, - for -=, * for *=, / for /=, clamped for clamp, map for apply
ValueForm ==
    CASE Op = "add_assign" ->
          (CASE Dim(prev) = 2 -> Vec2_add(prev, rhs)
            [] Dim(prev) = 3 -> Vec3_add(prev, rhs)
            [] Dim(prev) = 4 -> Vec4_add(prev, rhs))
      [] Op = "sub_assign" ->
          (CASE Dim(prev) = 2 -> Vec2_sub(prev, rhs)
            [] Dim(prev) = 3 -> Vec3_sub(prev, rhs)
            [] Dim(prev) = 4 -> Vec4_sub(prev, rhs))
      [] Op = "mul_assign" ->
          (CASE Dim(prev) = 2 -> Vec2_mul(prev, rhs)
            [] Dim(prev) = 3 -> Vec3_mul(prev, rhs)
            [] Dim(prev) = 4 -> Vec4_mul(prev, rhs))
      [] Op = "div_assign" ->
          (CASE Dim(prev) = 2 -> Vec2_div(prev, rhs)
            [] Dim(prev) = 3 -> Vec3_div(prev, rhs)
            [] Dim(prev) = 4 -> Vec4_div(prev, rhs))
      [] Op = "mul_assign_scalar" ->
          (CASE Dim(prev) = 2 -> Vec2_mul_scalar(prev, s)
            [] Dim(prev) = 3 -> Vec3_mul_scalar(prev, s)
            [] Dim(prev) = 4 -> Vec4_mul_scalar(prev, s))
      [] Op = "div_assign_scalar" ->
          (CASE Dim(prev) = 2 -> Vec2_div_scalar(prev, s)
            [] Dim(prev) = 3 -> Vec3_div_scalar(prev, s)
            [] Dim(prev) = 4 -> Vec4_div_scalar(prev, s))
      [] Op = "clamp" ->
          (CASE Dim(prev) = 2 -> Vec2_clamped(prev, min, max)
            [] Dim(prev) = 3 -> Vec3_clamped(prev, min, max)
            [] Dim(prev) = 4 -> Vec4_clamped(prev, min, max))
      [] Op = "apply" ->
          (CASE Dim(prev) = 2 -> Vec2_map(prev, func)
            [] Dim(prev) = 3 -> Vec3_map(prev, func)
            [] Dim(prev) = 4 -> Vec4_map(prev, func))

\* C20: in-place and value-returning forms agree along any sequence.  After
\* every in-place operation of a chain (+=, -=, *=, /= with a vector, *=, /=
\* with a scalar, clamp, apply) the receiver is the value that the
\* value-returning form yields from the receiver before the operation, and
\* the in-place form panics exactly where the value-returning form does; step
\* by step, the chain of in-place operations and the chain of
\* value-returning operations therefore reach the same vector.  The operand
\* is as it was passed.
C20_InPlaceAgreesWithValue ==
    (Len(hist) >= 1 /\ Op \in InPlaceOps) =>
        /\ IF Unwound(ValueForm) THEN panicked
           ELSE ~panicked /\ self = ValueForm
        /\ Op \in {"add_assign", "sub_assign", "mul_assign", "div_assign"}
              => (DOMAIN rhs = DOMAIN prev
                    /\ \A g \in DOMAIN rhs : InRange(kind, rhs[g]))

\* v *= 2 and then the result -= (2, 1, 1): two in-place operations in a
\* row, both changing the receiver
C20_Witness ==
    /\ hist = <<"mul_assign_scalar", "sub_assign">>
    /\ ~panicked
    /\ v = Vec3_new(1, 1, 2)
    /\ prev = Vec3_new(2, 2, 4)
    /\ rhs = Vec3_new(2, 1, 1)
    /\ self = Vec3_new(0, 1, 3)

-----------------------------------------------------------------------------
(* C21 *)

\* r[i], by the Index impl of the family of r
IndexOf(r, i) ==
    CASE Dim(r) = 2 -> Vec2_index(r, i) [] Dim(r) = 3 -> Vec3_index(r, i)
      [] Dim(r) = 4 -> Vec4_index(r, i)

\* C21: the element view exposes the components in declared order.  For
\* every vector v of N components, as_slice() holds x, y[, z[, w]] in this
\* order and as_slice()[i] is v[i] for every i < N; a write of c at a
\* position i < N through as_mut_slice() or through mutable indexing makes
\* component i read c and leaves every other component as it was.
C21_ElementViewInOrder ==
    /\ Only("as_slice") =>
          /\ ~panicked
          /\ view = Comps(v)
          /\ \A i \in 0..(Dim(v) - 1) : view[i + 1] = IndexOf(v, i)
    /\ ((Only("as_mut_slice_write") \/ Only("index_mut")) /\ index < Dim(v)) =>
          /\ ~panicked
          /\ DOMAIN self = DOMAIN v
          /\ \A j \in 0..(Dim(v) - 1) :
                IndexOf(self, j) = IF j = index THEN s ELSE IndexOf(v, j)

\* 2 written at position 3 of the element view of a 4-component vector: w
\* became 2 and the other components stayed
C21_Witness ==
    /\ Only("as_mut_slice_write")
    /\ Dim(v) = 4
    /\ index = 3
    /\ s = 2
    /\ v.w # 2
    /\ v.x # v.y
    /\ self = [v EXCEPT !.w = 2]
    /\ ~panicked

-----------------------------------------------------------------------------
(* C22 *)

\* s * r, r * s and r * broadcast(s), by the impls of the family of r
ScalarTimes(c, r) ==
    CASE Dim(r) = 2 -> Vec2_scalar_mul(c, r)
      [] Dim(r) = 3 -> Vec3_scalar_mul(c, r)
      [] Dim(r) = 4 -> Vec4_scalar_mul(c, r)

TimesScalar(r, c) ==
    CASE Dim(r) = 2 -> Vec2_mul_scalar(r, c)
      [] Dim(r) = 3 -> Vec3_mul_scalar(r, c)
      [] Dim(r) = 4 -> Vec4_mul_scalar(r, c)

TimesBroadcast(r, c) ==
    CASE Dim(r) = 2 -> Vec2_mul(r, Vec2_broadcast(c))
      [] Dim(r) = 3 -> Vec3_mul(r, Vec3_broadcast(c))
      [] Dim(r) = 4 -> Vec4_mul(r, Vec4_broadcast(c))

\* the last operation ended as the expression does: it panicked where the
\* expression panics, and otherwise left its value
Arrived(result) ==
    IF Unwound(result) THEN panicked ELSE ~panicked /\ self = result

\* C22: scalar multiplication is the same on either side.  For every vector
\* v and scalar s of the element kind, s * v ends as v * s does, and both end
\* as the component-wise product v * broadcast(s) does: the same vector, or a
\* panic in all three.
C22_ScalarMulEitherSide ==
    /\ Only("scalar_mul") =>
          /\ Arrived(TimesScalar(v, s))
          /\ Arrived(TimesBroadcast(v, s))
    /\ Only("mul_scalar") =>
          /\ Arrived(ScalarTimes(s, v))
          /\ Arrived(TimesBroadcast(v, s))

\* 2 * v of a 3-component vector with distinct y and z, which changed it
C22_Witness ==
    /\ Only("scalar_mul")
    /\ Dim(v) = 3
    /\ s = 2
    /\ v.y # v.z
    /\ v.z # 0
    /\ ~panicked
    /\ self # v
    /\ self = TimesScalar(v, 2)

=============================================================================
